---- MODULE Spec2Model ----
(***************************************************************************)
(* Model of tooling/pageviz.py: decode_flags, get_next_table_addr and the   *)
(* recursive walk parse_paging_structure over a raw memory dump.            *)
(*                                                                         *)
(* 64-bit entry values are kept as four 16-bit limbs, least significant     *)
(* first (<<bits 0-15, bits 16-31, bits 32-47, bits 48-63>>), because the   *)
(* model checker's integers are 32 bits wide.  Physical addresses of tables *)
(* are such limb tuples too; dump offsets and lengths are plain integers.   *)
(***************************************************************************)
EXTENDS Integers, Sequences, FiniteSets, TLC

VARIABLES
    dump_bytes,           \* the dump: [len, writes], all bytes zero except the 8-byte writes
    dump_base_phys_addr,  \* physical address of byte 0 of the dump
    pml4_offset_in_dump,  \* byte offset of the top-level table
    nodes,                \* the dict `nodes` (its key set)
    dot_nodes,            \* dot.node(...) calls made so far, in order
    dot_edges,            \* dot.edge(...) calls made so far, in order
    stack,                \* activation records of traverse, outermost first
    ret,                  \* value returned by the traverse call that returned last
    phase,                \* "init" | "walk" | "done" | "raised"; "pure" when only decode_flags runs
    stdout,               \* addresses printed by the out-of-bounds message, in order
    reads,                \* history: <<phys_addr, table_type>> of every visit that passed the
                          \* bounds test and went on to read its 512 entries
    entry,                \* the 64-bit value handed to decode_flags on its own
    flags_out,            \* the text decode_flags returned for it
    applied               \* whether decode_flags has been applied to entry

vars == <<dump_bytes, dump_base_phys_addr, pml4_offset_in_dump, nodes, dot_nodes,
          dot_edges, stack, ret, phase, stdout, reads, entry, flags_out, applied>>

walkVars == <<dump_bytes, dump_base_phys_addr, pml4_offset_in_dump, nodes, dot_nodes,
              dot_edges, stack, ret, phase, stdout, reads>>

pureVars == <<entry, flags_out, applied>>

----------------------------------------------------------------------------
(* Program constants *)

PAGE_TABLE_ENTRIES == 512

ENTRY_SIZE == 8

TABLE_BYTES == 4096

(* Bounds of the model *)

MaxDumpPages == 2

MaxWrites == 2

ProbeLowMax == 520

----------------------------------------------------------------------------
(* 64-bit arithmetic on limbs *)

LIMB == 256 * 256

None == <<>>

Min(a, b) == IF a < b THEN a ELSE b

Max(a, b) == IF a > b THEN a ELSE b

RECURSIVE Pow2(_)
Pow2(n) == IF n = 0 THEN 1 ELSE 2 * Pow2(n - 1)

RECURSIVE BitAnd(_, _)
BitAnd(a, b) ==
    IF a = 0 \/ b = 0 THEN 0
    ELSE (a % 2) * (b % 2) + 2 * BitAnd(a \div 2, b \div 2)

And64(a, b) == [j \in 1..4 |-> BitAnd(a[j], b[j])]

Zero64 == <<0, 0, 0, 0>>

\* 1 << k as a 64-bit value
Shl1(k) == [j \in 1..4 |-> IF (k \div 16) + 1 = j THEN Pow2(k % 16) ELSE 0]

\* a small non-negative Python int as a 64-bit value
ToU64(n) == <<n % LIMB, n \div LIMB, 0, 0>>

\* a 64-bit value below 2^30 as an integer
Fits(u) == u[3] = 0 /\ u[4] = 0 /\ u[2] < 16384

ToInt(u) == u[1] + LIMB * u[2]

\* an offset larger than every dump length and base address of the model;
\* stands for phys_addr - base when phys_addr is 2^30 or more
FarOffset == 16384 * LIMB

----------------------------------------------------------------------------
(* The dump: a bytes object of length len, zero except where written *)

ByteAt(d, k) ==
    LET s == k - (k % ENTRY_SIZE)
    IN  IF s \in DOMAIN d.writes THEN d.writes[s][(k % ENTRY_SIZE) + 1] ELSE 0

\* Python's clamping of a slice bound against a sequence of length n
PyBound(x, n) == IF x < 0 THEN Max(x + n, 0) ELSE Min(x, n)

\* dump_bytes[a:b]
Slice(d, a, b) ==
    LET lo == PyBound(a, d.len)
        hi == PyBound(b, d.len)
    IN  [j \in 1..Max(hi - lo, 0) |-> ByteAt(d, lo + j - 1)]

\* struct.unpack('<Q', bs)[0]; raises struct.error unless bs has 8 bytes
struct_unpack_Q(bs) ==
    IF Len(bs) # 8 THEN [ok |-> FALSE, val |-> Zero64]
    ELSE [ok |-> TRUE,
          val |-> [j \in 1..4 |-> bs[2 * j - 1] + 256 * bs[2 * j]]]

----------------------------------------------------------------------------
(* Flag decoding and address extraction *)

FLAG_MASKS == <<
    [flag |-> "P",   mask |-> Shl1(0)],
    [flag |-> "R/W", mask |-> Shl1(1)],
    [flag |-> "U/S", mask |-> Shl1(2)],
    [flag |-> "PWT", mask |-> Shl1(3)],
    [flag |-> "PCD", mask |-> Shl1(4)],
    [flag |-> "A",   mask |-> Shl1(5)],
    [flag |-> "D",   mask |-> Shl1(6)],
    [flag |-> "PS",  mask |-> Shl1(7)],
    [flag |-> "G",   mask |-> Shl1(8)] >>

\* FLAG_MASKS[name]
FlagMask(name) ==
    (CHOOSE j \in 1..Len(FLAG_MASKS) : FLAG_MASKS[j].flag = name)

\* entry & FLAG_MASKS[name], as a truth value
HasFlag(e, name) == And64(e, FLAG_MASKS[FlagMask(name)].mask) # Zero64

\* ', '.join(flags)
RECURSIVE Join(_)
Join(flags) ==
    IF flags = <<>> THEN ""
    ELSE IF Len(flags) = 1 THEN flags[1]
    ELSE flags[1] \o ", " \o Join(Tail(flags))

RECURSIVE flag_list(_, _)
flag_list(e, j) ==
    IF j > Len(FLAG_MASKS) THEN <<>>
    ELSE (IF And64(e, FLAG_MASKS[j].mask) # Zero64 THEN <<FLAG_MASKS[j].flag>> ELSE <<>>)
         \o flag_list(e, j + 1)

\* decode_flags with every mask one bit too high
decode_flags_mutShift(e) ==
    Join(SelectSeq([j \in 1..Len(FLAG_MASKS) |->
                      IF And64(e, Shl1(j)) # Zero64 THEN FLAG_MASKS[j].flag ELSE ""],
                   LAMBDA s : s # ""))

decode_flags(e) == Join(flag_list(e, 1))

\* 0x000FFFFFFFFFF000
ADDR_MASK == <<61440, 65535, 65535, 15>>

\* get_next_table_addr with the mask 0xFFFFFFFFFFFFF000, which keeps bits 52-63
get_next_table_addr_mutMask(e) == And64(e, <<61440, 65535, 65535, 65535>>)

get_next_table_addr(e) == And64(e, ADDR_MASK)

----------------------------------------------------------------------------
(* parse_paging_structure: the closures *)

\* f"table_{phys_addr}"
node_id_of(phys_addr) == <<"table_", phys_addr>>

\* the test of line 128 dropped: every returned value is kept
Truthy_mutAlways(x) == TRUE

\* Python truthiness of a node id or None
Truthy(x) == x # None

get_dump_offset(phys_addr) ==
    IF Fits(phys_addr) THEN ToInt(phys_addr) - dump_base_phys_addr ELSE FarOffset

\* the bounds test with >= for >, which rejects a table that ends at the dump's end
out_of_bounds_mutOffByOne(offset) == offset < 0 \/ offset + TABLE_BYTES >= dump_bytes.len

out_of_bounds(offset) == offset < 0 \/ offset + TABLE_BYTES > dump_bytes.len

\* add_table_node without the `if node_id in nodes` test
add_table_node_mutNoCheck(ns, dn, phys_addr, table_type, entries_data) ==
    [nodes |-> ns \cup {node_id_of(phys_addr)},
     dot_nodes |-> Append(dn, [id |-> node_id_of(phys_addr), table_type |-> table_type,
                               phys_addr |-> phys_addr, rows |-> entries_data]),
     id |-> node_id_of(phys_addr)]

\* add_table_node as a function of the dict and the graph body; returns both and the id
add_table_node(ns, dn, phys_addr, table_type, entries_data) ==
    LET node_id == node_id_of(phys_addr)
    IN  IF node_id \in ns
        THEN [nodes |-> ns, dot_nodes |-> dn, id |-> node_id]
        ELSE [nodes |-> ns \cup {node_id},
              dot_nodes |-> Append(dn, [id |-> node_id, table_type |-> table_type,
                                        phys_addr |-> phys_addr, rows |-> entries_data]),
              id |-> node_id]

\* the level mapping with 'PD' mapped to 'PD': the leaf level is never reached
next_table_type_mutLoop(table_type) ==
    CASE table_type = "PML4" -> "PDPT"
      [] table_type = "PDPT" -> "PD"
      [] table_type = "PD" -> "PD"

\* {'PML4': 'PDPT', 'PDPT': 'PD', 'PD': 'PT'}[table_type]
next_table_type(table_type) ==
    CASE table_type = "PML4" -> "PDPT"
      [] table_type = "PDPT" -> "PD"
      [] table_type = "PD" -> "PT"

is_leaf_table(table_type) == table_type = "PT"

\* the condition of line 125 without the Page-Size test
recurses_mutNoPS(table_type, entry_value) == ~is_leaf_table(table_type)

\* the condition of line 125
recurses(table_type, entry_value) ==
    ~is_leaf_table(table_type) /\ ~HasFlag(entry_value, "PS")

\* a fresh activation of traverse(phys_addr, table_type); the locals are not assigned yet
NewFrame(phys_addr, table_type) ==
    [phys_addr |-> phys_addr, table_type |-> table_type, pc |-> "enter",
     offset |-> 0, i |-> 0, current_table_entries_data |-> <<>>,
     next_level_nodes |-> <<>>, current_node_id |-> None, k |-> 0]

Top == stack[Len(stack)]

SetTop(f) == [stack EXCEPT ![Len(stack)] = f]

Popped == SubSeq(stack, 1, Len(stack) - 1)

\* entry i of the table at dump offset `offset`, as traverse reads it
read_entry(offset, i) ==
    struct_unpack_Q(Slice(dump_bytes, offset + i * ENTRY_SIZE, offset + (i + 1) * ENTRY_SIZE))

----------------------------------------------------------------------------
(* Inputs *)

EntryValues == {
    <<1, 0, 0, 0, 0, 0, 0, 0>>,                  \* 0x0000000000000001  P -> 0x0
    <<3, 16, 0, 0, 0, 0, 0, 0>>,                 \* 0x0000000000001003  P R/W -> 0x1000
    <<1, 32, 0, 0, 0, 0, 0, 128>>,               \* 0x8000000000002001  P NX -> 0x2000
    <<255, 255, 255, 255, 255, 255, 255, 255>>,  \* 0xFFFFFFFFFFFFFFFF  P PS ... huge page
    <<2, 16, 0, 0, 0, 0, 0, 0>> }                \* 0x0000000000001002  not present

\* a whole number of pages, and one byte less
DumpLengths == {TABLE_BYTES * MaxDumpPages, TABLE_BYTES * MaxDumpPages - 1}

\* byte offsets of the entries that may be non-zero: slots 0 and 511 of the first
\* page, slot 0 of the second
WriteSites == {0, ENTRY_SIZE * (PAGE_TABLE_ENTRIES - 1), TABLE_BYTES}

Sites(len) == {s \in WriteSites : s + ENTRY_SIZE <= len}

Dumps ==
    UNION {
        UNION {{[len |-> len, writes |-> w] : w \in [S -> EntryValues]} :
               S \in {T \in SUBSET Sites(len) : Cardinality(T) <= MaxWrites}} :
        len \in DumpLengths}

\* <<dump_base_phys_addr, pml4_offset_in_dump>>
Placements == {<<0, 0>>, <<TABLE_BYTES, TABLE_BYTES>>}

ProbeValues ==
    {<<l0, l1, l2, l3>> : l0 \in 0..ProbeLowMax, l1 \in {0, 1}, l2 \in {0},
                          l3 \in {0, 32768, 65535}}

----------------------------------------------------------------------------
(* The walk *)

Init ==
    /\ dump_bytes \in Dumps
    /\ \E pl \in Placements :
           /\ dump_base_phys_addr = pl[1]
           /\ pml4_offset_in_dump = pl[2]
    /\ nodes = {}
    /\ dot_nodes = <<>>
    /\ dot_edges = <<>>
    /\ stack = <<>>
    /\ ret = None
    /\ phase = "init"
    /\ stdout = <<>>
    /\ reads = <<>>
    /\ entry = Zero64
    /\ flags_out = ""
    /\ applied = FALSE

\* lines 142-143: the root call
Start ==
    /\ phase = "init"
    /\ phase' = "walk"
    /\ stack' = <<NewFrame(ToU64(dump_base_phys_addr + pml4_offset_in_dump), "PML4")>>
    /\ UNCHANGED <<dump_bytes, dump_base_phys_addr, pml4_offset_in_dump, nodes, dot_nodes,
                   dot_edges, ret, stdout, reads>>
    /\ UNCHANGED pureVars

\* lines 97-100: the table lies outside the dump
EnterOutOfBounds ==
    /\ phase = "walk" /\ stack # <<>> /\ Top.pc = "enter"
    /\ out_of_bounds(get_dump_offset(Top.phys_addr))
    /\ stdout' = Append(stdout, Top.phys_addr)
    /\ ret' = None
    /\ stack' = Popped
    /\ UNCHANGED <<dump_bytes, dump_base_phys_addr, pml4_offset_in_dump, nodes, dot_nodes,
                   dot_edges, phase, reads>>
    /\ UNCHANGED pureVars

\* lines 97-104: the table lies inside the dump
EnterTable ==
    /\ phase = "walk" /\ stack # <<>> /\ Top.pc = "enter"
    /\ ~out_of_bounds(get_dump_offset(Top.phys_addr))
    /\ stack' = SetTop([Top EXCEPT !.offset = get_dump_offset(Top.phys_addr),
                                   !.current_table_entries_data = <<>>,
                                   !.next_level_nodes = <<>>,
                                   !.i = 0,
                                   !.pc = "loop"])
    /\ reads' = Append(reads, <<Top.phys_addr, Top.table_type>>)
    /\ UNCHANGED <<dump_bytes, dump_base_phys_addr, pml4_offset_in_dump, nodes, dot_nodes,
                   dot_edges, ret, phase, stdout>>
    /\ UNCHANGED pureVars

\* line 107: the loop of the innermost activation has an iteration left
LoopRunning ==
    phase = "walk" /\ stack # <<>> /\ Top.pc = "loop" /\ Top.i < PAGE_TABLE_ENTRIES

\* lines 107-127: one iteration of the loop, up to the recursive call
Iterate ==
    /\ LoopRunning
    /\ LET u == read_entry(Top.offset, Top.i)
           entry_value == u.val
           decoded_flags == decode_flags(entry_value)
           next_phys_addr == get_next_table_addr(entry_value)
           withRow == [Top EXCEPT !.current_table_entries_data =
                                      Append(@, <<Top.i, next_phys_addr, decoded_flags>>)]
       IN  IF ~u.ok
           THEN /\ phase' = "raised"
                /\ stack' = stack
           ELSE IF ~HasFlag(entry_value, "P")
           THEN /\ phase' = phase
                /\ stack' = SetTop([Top EXCEPT !.i = @ + 1])
           ELSE IF recurses(Top.table_type, entry_value)
           THEN /\ phase' = phase
                /\ stack' = Append(SetTop([withRow EXCEPT !.pc = "await"]),
                                   NewFrame(next_phys_addr, next_table_type(Top.table_type)))
           ELSE /\ phase' = phase
                /\ stack' = SetTop([withRow EXCEPT !.i = @ + 1])
    /\ UNCHANGED <<dump_bytes, dump_base_phys_addr, pml4_offset_in_dump, nodes, dot_nodes,
                   dot_edges, ret, stdout, reads>>
    /\ UNCHANGED pureVars

\* lines 127-129: the recursive call has returned
Resume ==
    /\ phase = "walk" /\ stack # <<>> /\ Top.pc = "await"
    /\ stack' = SetTop([Top EXCEPT !.next_level_nodes =
                                       IF Truthy(ret) THEN Append(@, <<Top.i, ret>>) ELSE @,
                                   !.i = @ + 1,
                                   !.pc = "loop"])
    /\ UNCHANGED <<dump_bytes, dump_base_phys_addr, pml4_offset_in_dump, nodes, dot_nodes,
                   dot_edges, ret, phase, stdout, reads>>
    /\ UNCHANGED pureVars

\* line 132: the loop is over, the table becomes a node
AddNode ==
    /\ phase = "walk" /\ stack # <<>> /\ Top.pc = "loop" /\ Top.i = PAGE_TABLE_ENTRIES
    /\ LET r == add_table_node(nodes, dot_nodes, Top.phys_addr, Top.table_type,
                               Top.current_table_entries_data)
       IN  /\ nodes' = r.nodes
           /\ dot_nodes' = r.dot_nodes
           /\ stack' = SetTop([Top EXCEPT !.current_node_id = r.id, !.pc = "edges", !.k = 1])
    /\ UNCHANGED <<dump_bytes, dump_base_phys_addr, pml4_offset_in_dump,
                   dot_edges, ret, phase, stdout, reads>>
    /\ UNCHANGED pureVars

\* lines 135-137: one edge to a next-level table
AddEdge ==
    /\ phase = "walk" /\ stack # <<>> /\ Top.pc = "edges"
    /\ Top.k <= Len(Top.next_level_nodes)
    /\ dot_edges' = Append(dot_edges, [tail |-> Top.current_node_id,
                                       head |-> Top.next_level_nodes[Top.k][2],
                                       label |-> Top.next_level_nodes[Top.k][1]])
    /\ stack' = SetTop([Top EXCEPT !.k = @ + 1])
    /\ UNCHANGED <<dump_bytes, dump_base_phys_addr, pml4_offset_in_dump, nodes, dot_nodes,
                   ret, phase, stdout, reads>>
    /\ UNCHANGED pureVars

\* line 139
Return ==
    /\ phase = "walk" /\ stack # <<>> /\ Top.pc = "edges"
    /\ Top.k > Len(Top.next_level_nodes)
    /\ ret' = Top.current_node_id
    /\ stack' = Popped
    /\ UNCHANGED <<dump_bytes, dump_base_phys_addr, pml4_offset_in_dump, nodes, dot_nodes,
                   dot_edges, phase, stdout, reads>>
    /\ UNCHANGED pureVars

\* lines 143-145: the root call has returned, the graph is handed back
Finish ==
    /\ phase = "walk" /\ stack = <<>>
    /\ phase' = "done"
    /\ UNCHANGED <<dump_bytes, dump_base_phys_addr, pml4_offset_in_dump, nodes, dot_nodes,
                   dot_edges, stack, ret, stdout, reads>>
    /\ UNCHANGED pureVars

Next ==
    \/ Start
    \/ EnterOutOfBounds
    \/ EnterTable
    \/ Iterate
    \/ Resume
    \/ AddNode
    \/ AddEdge
    \/ Return
    \/ Finish

Spec == Init /\ [][Next]_vars

----------------------------------------------------------------------------
(* decode_flags applied on its own to arbitrary 64-bit values *)

PureInit ==
    /\ dump_bytes = [len |-> 0, writes |-> <<>>]
    /\ dump_base_phys_addr = 0
    /\ pml4_offset_in_dump = 0
    /\ nodes = {}
    /\ dot_nodes = <<>>
    /\ dot_edges = <<>>
    /\ stack = <<>>
    /\ ret = None
    /\ phase = "pure"
    /\ stdout = <<>>
    /\ reads = <<>>
    /\ entry \in ProbeValues
    /\ flags_out = ""
    /\ applied = FALSE

DecodeFlags ==
    /\ phase = "pure" /\ ~applied
    /\ flags_out' = decode_flags(entry)
    /\ applied' = TRUE
    /\ UNCHANGED entry
    /\ UNCHANGED walkVars

PureNext == DecodeFlags

PureSpec == PureInit /\ [][PureNext]_vars

----------------------------------------------------------------------------
(* What the dump says, read directly from its bytes (independent of the walk) *)

\* the 8 bytes of the entry at dump offset s
RawAt(s) ==
    IF s \in DOMAIN dump_bytes.writes THEN dump_bytes.writes[s]
    ELSE <<0, 0, 0, 0, 0, 0, 0, 0>>

RawPresent(b) == b[1] % 2 = 1

RawPageSize(b) == (b[1] \div 128) % 2 = 1

\* bits 12-51 of the entry, in place
RawAddr(b) == <<256 * (b[2] - (b[2] % 16)), b[3] + 256 * b[4], b[5] + 256 * b[6], b[7] % 16>>

RawValue(b) == <<b[1] + 256 * b[2], b[3] + 256 * b[4], b[5] + 256 * b[6], b[7] + 256 * b[8]>>

Pow2Table == [k \in 0..15 |-> Pow2(k)]

\* bit k of a 64-bit value
Bit(e, k) == (e[(k \div 16) + 1] \div Pow2Table[k % 16]) % 2

\* the value with bit k equal to bit k of e for k in 12..51 and 0 elsewhere
KeepBits12To51(e) ==
    [j \in 1..4 |->
        LET S[k \in 0..16] ==
                IF k = 0 THEN 0
                ELSE S[k - 1] +
                     (IF 16 * (j - 1) + k - 1 >= 12 /\ 16 * (j - 1) + k - 1 <= 51
                      THEN Bit(e, 16 * (j - 1) + k - 1) * Pow2Table[k - 1] ELSE 0)
        IN  S[16]]

TagOrder == <<"P", "R/W", "U/S", "PWT", "PCD", "A", "D", "PS", "G">>

\* the tags whose bit (tag j: bit j - 1) is set, in declaration order
ExpectedTags(e) ==
    LET set == {j \in 1..Len(TagOrder) : Bit(e, j - 1) = 1}
        F[j \in 0..Len(TagOrder)] ==
            IF j = 0 THEN <<>>
            ELSE IF j \in set THEN Append(F[j - 1], TagOrder[j]) ELSE F[j - 1]
    IN  F[Len(TagOrder)]

ExpectedText(e) ==
    LET tags == ExpectedTags(e)
        T[j \in 0..Len(tags)] ==
            IF j = 0 THEN ""
            ELSE IF j = 1 THEN tags[1]
            ELSE T[j - 1] \o ", " \o tags[j]
    IN  T[Len(tags)]

\* the table at this physical address lies wholly inside the dump
AddrInDump(a) ==
    /\ a[3] = 0 /\ a[4] = 0 /\ a[2] < 16384
    /\ a[1] + LIMB * a[2] - dump_base_phys_addr >= 0
    /\ a[1] + LIMB * a[2] - dump_base_phys_addr + TABLE_BYTES <= dump_bytes.len

OffsetOf(a) == a[1] + LIMB * a[2] - dump_base_phys_addr

\* the slots below n of the table at offset off whose entry is present
PresentSlots(off, n) ==
    {c \in {(s - off) \div ENTRY_SIZE :
               s \in {t \in DOMAIN dump_bytes.writes : t >= off /\ t < off + ENTRY_SIZE * n}} :
        RawPresent(dump_bytes.writes[off + ENTRY_SIZE * c])}

RECURSIVE Ascending(_)
Ascending(S) ==
    IF S = {} THEN <<>>
    ELSE LET m == CHOOSE x \in S : \A y \in S : x <= y
         IN  <<m>> \o Ascending(S \ {m})

\* per entry of the inputs: the address and the flag text its row must show
RowData == [b \in EntryValues |-> <<RawAddr(b), ExpectedText(RawValue(b))>>]

\* per entry of the inputs: its bits 12-51
MaskedValue == [b \in EntryValues |-> KeepBits12To51(RawValue(b))]

\* the rows a complete pass over slots 0..n-1 of the table at offset off must hold
ExpectedRows(off, n) ==
    LET slots == Ascending(PresentSlots(off, n))
    IN  [j \in 1..Len(slots) |->
            <<slots[j], RowData[RawAt(off + ENTRY_SIZE * slots[j])][1],
              RowData[RawAt(off + ENTRY_SIZE * slots[j])][2]>>]

\* the number of slots a visit has dealt with completely
Handled(f) ==
    CASE f.pc = "loop" -> f.i
      [] f.pc = "await" -> f.i + 1
      [] f.pc = "edges" -> PAGE_TABLE_ENTRIES

Reading == {d \in 1..Len(stack) : stack[d].pc # "enter"}

NodeIds == {dot_nodes[j].id : j \in 1..Len(dot_nodes)}

LevelOrder == <<"PML4", "PDPT", "PD", "PT">>

----------------------------------------------------------------------------
(* C1 *)

\* the work one activation still has in front of it
FrameRank(f) ==
    CASE f.pc = "enter" -> 2 * PAGE_TABLE_ENTRIES + 4 + PAGE_TABLE_ENTRIES + 2
      [] f.pc = "loop" -> 2 * (PAGE_TABLE_ENTRIES - f.i) + 3 + PAGE_TABLE_ENTRIES + 2
      [] f.pc = "await" -> 2 * (PAGE_TABLE_ENTRIES - f.i) + 2 + PAGE_TABLE_ENTRIES + 2
      [] f.pc = "edges" -> PAGE_TABLE_ENTRIES + 2 - f.k

PhaseRank == CASE phase = "init" -> 2 [] phase = "walk" -> 1 [] OTHER -> 0

Rank == <<PhaseRank>> \o [d \in 1..4 |-> IF d <= Len(stack) THEN FrameRank(stack[d]) ELSE 0]

LexLess(a, b) ==
    \E j \in 1..Len(a) : a[j] < b[j] /\ \A m \in 1..(j - 1) : a[m] = b[m]

ChainBounded ==
    /\ Len(stack) <= 4
    /\ \A d \in 1..Len(stack) : stack[d].table_type = LevelOrder[d]
    /\ \A d \in 1..Len(stack) : FrameRank(stack[d]) > 0

\* some step is possible: a loop iteration (whose body is total), or one of the
\* other steps
CanStep ==
    \/ LoopRunning
    \/ ENABLED (Start \/ EnterOutOfBounds \/ EnterTable \/ Resume \/ AddNode \/ AddEdge
                  \/ Return \/ Finish)

\* C1: the walk terminates for every dump, cyclic ones included: the chain of
\* recursive traverse calls is never longer than four and descends one level per
\* call, the walk is never stuck before it has returned, and every step strictly
\* lowers a well-founded measure of the remaining work.
C1_Termination ==
    /\ [](ChainBounded /\ (phase = "done" \/ CanStep))
    /\ [][LexLess(Rank', Rank)]_vars

\* a cyclic dump: four nested calls, all on the same table
C1_Witness ==
    /\ Len(stack) = 4
    /\ \A d \in 1..4 : stack[d].phys_addr = stack[1].phys_addr
    /\ stack[4].pc = "loop"

----------------------------------------------------------------------------
(* C2 *)

\* C2: a table whose window does not fit the dump is reported and skipped: nothing
\* is raised, it is never read, it gets no node and no edge leads to it, its visit
\* hands None back to a parent that is still in its loop, and a finished loop has a
\* row for every present entry of its table; a table that fits (exactly, too) is
\* never reported.
C2_BoundsSafety ==
    /\ phase # "raised"
    /\ \A d \in Reading : AddrInDump(stack[d].phys_addr)
    /\ \A j \in 1..Len(reads) : AddrInDump(reads[j][1])
    /\ \A j \in 1..Len(dot_nodes) : AddrInDump(dot_nodes[j].phys_addr)
    /\ \A j \in 1..Len(dot_edges) :
          /\ Len(dot_edges[j].head) = 2
          /\ AddrInDump(dot_edges[j].head[2])
    /\ \A d \in Reading : \A j \in 1..Len(stack[d].next_level_nodes) :
          /\ Len(stack[d].next_level_nodes[j][2]) = 2
          /\ AddrInDump(stack[d].next_level_nodes[j][2][2])
    /\ \A j \in 1..Len(stdout) : ~AddrInDump(stdout[j])
    /\ \A d \in Reading :
          stack[d].pc = "edges" =>
              [j \in 1..Len(stack[d].current_table_entries_data) |->
                  stack[d].current_table_entries_data[j][1]]
                = Ascending(PresentSlots(stack[d].offset, PAGE_TABLE_ENTRIES))
    /\ \A d \in 1..(Len(stack) - 1) :
          stack[d].pc = "await" /\ stack[d].i < PAGE_TABLE_ENTRIES
    /\ (stack # <<>> /\ stack[Len(stack)].pc = "await") =>
          (ret = None <=> ~AddrInDump(MaskedValue[RawAt(stack[Len(stack)].offset
                                          + ENTRY_SIZE * stack[Len(stack)].i)]))

\* slot 0 of the top table points outside the dump, slot 511 at a table that ends
\* exactly at the dump's end; the walk has reported the first and read the second
C2_Witness ==
    /\ phase = "done"
    /\ Len(stdout) > 0
    /\ \E j \in 1..Len(dot_nodes) :
          /\ Len(dot_nodes[j].rows) = 2
          /\ dot_nodes[j].rows[1][2] = stdout[1]
    /\ \E j \in 1..Len(dot_nodes) :
          OffsetOf(dot_nodes[j].phys_addr) + TABLE_BYTES = dump_bytes.len
    /\ Len(dot_edges) = 1

----------------------------------------------------------------------------
(* C3 *)

NodesUnique ==
    /\ \A j, m \in 1..Len(dot_nodes) : j # m => dot_nodes[j].phys_addr # dot_nodes[m].phys_addr
    /\ nodes = NodeIds
    /\ \A j \in 1..Len(dot_nodes) : dot_nodes[j].id = <<"table_", dot_nodes[j].phys_addr>>

\* the call of add_table_node in this step is for an address that has a node
SecondCall ==
    /\ phase = "walk" /\ stack # <<>>
    /\ stack[Len(stack)].pc = "loop" /\ stack[Len(stack)].i = PAGE_TABLE_ENTRIES
    /\ <<"table_", stack[Len(stack)].phys_addr>> \in nodes

\* C3: the graph never holds two nodes for one table address, and a call of
\* add_table_node for an address that already has a node returns that node's id and
\* changes neither the node list nor the dict, whatever level and rows it passes.
C3_IdempotentNode ==
    /\ []NodesUnique
    /\ [][/\ SubSeq(dot_nodes', 1, Len(dot_nodes)) = dot_nodes
          /\ SecondCall =>
                /\ dot_nodes' = dot_nodes
                /\ nodes' = nodes
                /\ stack'[Len(stack)].current_node_id = <<"table_", stack[Len(stack)].phys_addr>>]_vars

\* a second call has returned: the caller holds the id of a node made at another level
C3_Witness ==
    \E d \in 1..Len(stack) : \E j \in 1..Len(dot_nodes) :
        /\ stack[d].pc = "edges"
        /\ stack[d].current_node_id = dot_nodes[j].id
        /\ stack[d].table_type # dot_nodes[j].table_type
        /\ stack[d].current_table_entries_data # <<>>

----------------------------------------------------------------------------
(* C4 *)

SelfReferenceDump ==
    /\ DOMAIN dump_bytes.writes = {0}
    /\ dump_bytes.writes[0] = <<1, 0, 0, 0, 0, 0, 0, 0>>
    /\ dump_base_phys_addr = 0
    /\ pml4_offset_in_dump = 0

\* C4: on the all-zero dump with byte 0 set to 0x01, base 0 and top offset 0, the
\* finished walk holds one node, the PML4 table at 0 with the one row (0, 0, "P"),
\* and one edge, labeled 0, from that node to itself.
C4_SelfReference ==
    (phase = "done" /\ SelfReferenceDump) =>
        /\ Len(dot_nodes) = 1
        /\ dot_nodes[1].phys_addr = Zero64
        /\ dot_nodes[1].table_type = "PML4"
        /\ dot_nodes[1].rows = << <<0, Zero64, "P">> >>
        /\ dot_edges = << [tail |-> <<"table_", Zero64>>, head |-> <<"table_", Zero64>>,
                           label |-> 0] >>

----------------------------------------------------------------------------
(* C5 *)

\* C5: in every visit the rows are exactly the present entries dealt with so far
\* (slot, bits 12-51, flags); a call is in progress, a child is remembered and an
\* edge is recorded only for a present entry without Page-Size in a visit above the
\* leaf level, and it leads to that entry's address.
C5_TerminalEntry ==
    /\ \A d \in Reading :
          stack[d].current_table_entries_data = ExpectedRows(stack[d].offset, Handled(stack[d]))
    /\ \A d \in 2..Len(stack) :
          LET raw == RawAt(stack[d - 1].offset + ENTRY_SIZE * stack[d - 1].i)
          IN  /\ stack[d - 1].pc = "await"
              /\ stack[d - 1].table_type # "PT"
              /\ RawPresent(raw) /\ ~RawPageSize(raw)
              /\ stack[d].phys_addr = RawAddr(raw)
    /\ \A d \in Reading : \A j \in 1..Len(stack[d].next_level_nodes) :
          LET raw == RawAt(stack[d].offset + ENTRY_SIZE * stack[d].next_level_nodes[j][1])
          IN  /\ stack[d].table_type # "PT"
              /\ stack[d].next_level_nodes[j][1] < Handled(stack[d])
              /\ RawPresent(raw) /\ ~RawPageSize(raw)
              /\ stack[d].next_level_nodes[j][2] = <<"table_", RawAddr(raw)>>
    /\ \A j \in 1..Len(dot_edges) :
          /\ Len(dot_edges[j].tail) = 2
          /\ AddrInDump(dot_edges[j].tail[2])
          /\ LET raw == RawAt(OffsetOf(dot_edges[j].tail[2]) + ENTRY_SIZE * dot_edges[j].label)
             IN  /\ RawPresent(raw) /\ ~RawPageSize(raw)
                 /\ dot_edges[j].head = <<"table_", RawAddr(raw)>>

\* a PD-level visit has finished its loop with a row for a present Page-Size entry
\* and a child for another entry, and nothing remembered for the Page-Size entry
C5_Witness ==
    \E d \in 1..Len(stack) :
        /\ stack[d].table_type = "PD"
        /\ stack[d].pc = "edges"
        /\ Len(stack[d].next_level_nodes) = 1
        /\ \E j \in 1..Len(stack[d].current_table_entries_data) :
              LET c == stack[d].current_table_entries_data[j][1]
              IN  /\ RawPageSize(RawAt(stack[d].offset + ENTRY_SIZE * c))
                  /\ c # stack[d].next_level_nodes[1][1]

----------------------------------------------------------------------------
(* C6 *)

\* C6: both endpoints of every recorded edge are nodes of the graph, and so is every
\* child a visit has remembered for an edge still to be recorded.
C6_EdgeEndpoints ==
    /\ \A j \in 1..Len(dot_edges) :
          dot_edges[j].tail \in NodeIds /\ dot_edges[j].head \in NodeIds
    /\ \A d \in Reading : \A j \in 1..Len(stack[d].next_level_nodes) :
          stack[d].next_level_nodes[j][2] \in NodeIds

\* an edge is recorded in a walk that met a table outside the dump and read some
\* table twice
C6_Witness ==
    /\ Len(dot_edges) > 0
    /\ Len(stdout) > 0
    /\ \E j, m \in 1..Len(reads) : j # m /\ reads[j][1] = reads[m][1]

----------------------------------------------------------------------------
(* C7 *)

\* C7: no table address is read (its 512 entries decoded) twice in one walk.
C7_NoDuplicateDecode ==
    \A j, m \in 1..Len(reads) : j # m => reads[j][1] # reads[m][1]

----------------------------------------------------------------------------
(* C8 *)

\* C8: decode_flags(v) names exactly the tags whose bit is set in v (P bit 0 ... G
\* bit 8), in declaration order, whatever the other bits of v are.
C8_FlagDecoding == applied => flags_out = ExpectedText(entry)

\* a value with bits 0, 7 and 63 set
C8_Witness ==
    /\ applied
    /\ entry = <<129, 0, 0, 32768>>
    /\ flags_out = "P, PS"

----------------------------------------------------------------------------
(* C9 *)

\* C9: every address put in a row, and every address a child is visited at, is the
\* entry with bits 0-11 and 52-63 cleared and bits 12-51 in place: a multiple of
\* 4096 below 2^52.
C9_NextTableAddr ==
    /\ \A d \in Reading : \A j \in 1..Len(stack[d].current_table_entries_data) :
          LET row == stack[d].current_table_entries_data[j]
          IN  /\ row[2] = MaskedValue[RawAt(stack[d].offset + ENTRY_SIZE * row[1])]
              /\ row[2][1] % TABLE_BYTES = 0
              /\ row[2][4] < 16
    /\ \A j \in 1..Len(dot_nodes) : \A m \in 1..Len(dot_nodes[j].rows) :
          LET row == dot_nodes[j].rows[m]
          IN  row[2] = MaskedValue[RawAt(OffsetOf(dot_nodes[j].phys_addr) + ENTRY_SIZE * row[1])]
    /\ \A d \in 2..Len(stack) :
          stack[d].phys_addr =
              MaskedValue[RawAt(stack[d - 1].offset + ENTRY_SIZE * stack[d - 1].i)]

\* a child is being read at 0x2000 for the entry 0x8000000000002001 (bit 63 set),
\* and the parent's row for that entry holds 0x2000 too
C9_Witness ==
    /\ Len(stack) >= 2
    /\ RawAt(stack[1].offset + ENTRY_SIZE * stack[1].i) = <<1, 32, 0, 0, 0, 0, 0, 128>>
    /\ stack[2].phys_addr = <<8192, 0, 0, 0>>
    /\ stack[2].pc = "loop"
    /\ stack[1].current_table_entries_data[1] = <<stack[1].i, <<8192, 0, 0, 0>>, "P">>

----------------------------------------------------------------------------
(* C10 *)

\* C10: no labeled edge (parent, slot, child) is recorded twice.
C10_EdgesFormSet ==
    \A j, m \in 1..Len(dot_edges) : j # m => dot_edges[j] # dot_edges[m]

====
